---- MODULE Spec2Model ----
(***************************************************************************)
(* MixIso experiment scripts.                                              *)
(*                                                                         *)
(* Part 1: the Execution Harness, scripts/allocate_random_workload.py and  *)
(* scripts/allocate_bench_workload.py: main() submits every workload file  *)
(* of the input directory to a ThreadPoolExecutor(max_workers=4), each     *)
(* task runs allocate_file (one blocking call of the external allocation   *)
(* engine), and main() collects the futures with as_completed.             *)
(*                                                                         *)
(* A file name is a natural number; the numeric order of the names is the  *)
(* lexical order of sorted().  A string is a sequence of one-character     *)
(* strings.  The measured elapsed time of an invocation is not modelled:   *)
(* no decision of the harness reads it.                                    *)
(*                                                                         *)
(* Part 2: the Template Instantiator, scripts/generate_bench_workload.py:  *)
(* WorkloadGenerator.generate_from_benchmarks reads the benchmark files in *)
(* sorted order and writes one workload file per benchmark and case.       *)
(*                                                                         *)
(* Part 3: the Random Workload Generator,                                  *)
(* scripts/generate_random_workload.py: generate_workloads writes one      *)
(* workload file per case.                                                 *)
(*                                                                         *)
(* Part 4: the Control-Variable Analyzer, generate_analysis_csv of         *)
(* scripts/allocate_random_workload.py: it reads the performance log and   *)
(* writes the analysis rows.                                               *)
(*                                                                         *)
(* The end of the random harness's main(): generate_analysis_csv, then     *)
(* create_plots_from_analysis_csv, which reads the analysis file that is   *)
(* in the data directory.                                                  *)
(*                                                                         *)
(* Part 5: the experiment plan, scripts/random_workload_for_test.py:       *)
(* main() runs the Random Workload Generator once for every value of four  *)
(* experiments; the harness and the analysis are then run on the files.    *)
(* The content of a file of the plan is told only from the contents        *)
(* written under the same name before.                                     *)
(*                                                                         *)
(* Each part has its own specification; the variables of the other parts   *)
(* rest at a fixed value in it.  A text that the scripts build from pieces *)
(* (a key, a file name) is the sequence of its pieces, a number among them *)
(* being its decimal representation.                                       *)
(***************************************************************************)
EXTENDS Integers, Sequences, FiniteSets, TLC

\* ------------------------------------------------------------------ bounds
\* Most workload files in the input directory of the benchmark harness.
MaxFiles == 5
\* Most workload files in the input directory of the random harness (its
\* shuffle multiplies the runs by the number of permutations).
MaxShuffled == 2
\* Most engine invocations of one run that do not end with exit code 0.
MaxFailures == 1
\* How many characters the long diagnostic output exceeds the cut by.
ExtraLen == 1

\* ------------------------------------------------------- program constants
max_workers == 4
TruncLen == 200

Min(a, b) == IF a < b THEN a ELSE b

RECURSIVE Perms(_)
\* All orders of a finite set, as sequences.
Perms(S) ==
    IF S = {} THEN {<<>>}
    ELSE UNION {{<<x>> \o p : p \in Perms(S \ {x})} : x \in S}

RECURSIVE sorted(_)
\* sorted(glob('*.json')): the names in ascending order.
sorted(S) ==
    IF S = {} THEN <<>>
    ELSE LET m == CHOOSE x \in S : \A y \in S : x <= y
         IN <<m>> \o sorted(S \ {m})

Range(s) == {s[k] : k \in 1..Len(s)}

\* ------------------------------------------------------------- strings
NoneVal == <<"None">>
EmptyStr == <<>>
TimeoutText ==
    <<"T","i","m","e","o","u","t"," ","(",">","3","0","0","s",")">>
\* str(AttributeError) of  result.stderr.decode(...)  on a str
AttrErrText ==
    <<"'","s","t","r","'"," ","o","b","j","e","c","t"," ","h","a","s"," ",
      "n","o"," ","a","t","t","r","i","b","u","t","e"," ",
      "'","d","e","c","o","d","e","'">>
\* str(subprocess.TimeoutExpired) in the benchmark harness (timeout=30)
TimedOutAfterText ==
    <<"C","o","m","m","a","n","d"," ","t","i","m","e","d"," ","o","u","t">>
\* str(e) of an exception raised while invoking (java not found)
LaunchErrText == <<"[","E","r","r","n","o"," ","2","]">>
\* A short diagnostic output; the engine may print any text, also this one.
ShortStderr == TimeoutText
LongStderr == [k \in 1..(TruncLen + ExtraLen) |-> "x"]

\* s[:n]
Prefix(s, n) == SubSeq(s, 1, Min(n, Len(s)))

\* ------------------------------------------------- the external engine
\* What one run of  java algorithm.Allocator allocate <in> <out>  can do, as
\* subprocess.run sees it: exit code 0 having written the output file, a
\* non-zero exit code with some diagnostic output, no exit within the timeout
\* (the process is killed), or an exception while invoking.  The engine is
\* not part of the scripts; it is taken to write its output file exactly when
\* it ends with exit code 0 (spec section 6).
Stderrs == {ShortStderr, LongStderr}
EngineOutcomes ==
    {[kind |-> "exit0", stderr |-> EmptyStr, wrote |-> TRUE]}
    \cup {[kind |-> "nonzero", stderr |-> e, wrote |-> FALSE] : e \in Stderrs}
    \cup {[kind |-> "timeout", stderr |-> EmptyStr, wrote |-> FALSE]}
    \cup {[kind |-> "raise", stderr |-> EmptyStr, wrote |-> FALSE]}

\* ------------------------------------------------------- allocate_file
\* Faulty variant: no handler for subprocess.TimeoutExpired, so a timeout is handled
\* as any other exception.
allocate_file_no_timeout_handler(input_file, eng) ==
    IF eng.kind = "exit0"
    THEN [filename |-> input_file.name, success |-> TRUE, error |-> NoneVal]
    ELSE IF eng.kind = "nonzero"
    THEN [filename |-> input_file.name, success |-> FALSE,
          error |-> AttrErrText]
    ELSE IF eng.kind = "timeout"
    THEN [filename |-> input_file.name, success |-> FALSE,
          error |-> TimedOutAfterText]
    ELSE [filename |-> input_file.name, success |-> FALSE,
          error |-> LaunchErrText]

\* allocate_random_workload.allocate_file: the tuple it returns (without the
\* elapsed time).  stderr is a str (encoding='utf-8'), so .decode raises
\* AttributeError, which the generic handler turns into str(e).
allocate_file_random(input_file, eng) ==
    IF eng.kind = "exit0"
    THEN [filename |-> input_file.name, success |-> TRUE, error |-> NoneVal]
    ELSE IF eng.kind = "nonzero"
    THEN [filename |-> input_file.name, success |-> FALSE,
          error |-> AttrErrText]
    ELSE IF eng.kind = "timeout"
    THEN [filename |-> input_file.name, success |-> FALSE,
          error |-> TimeoutText]
    ELSE [filename |-> input_file.name, success |-> FALSE,
          error |-> LaunchErrText]

\* allocate_bench_workload.allocate_file
allocate_file_bench(input_file, eng) ==
    IF eng.kind = "exit0"
    THEN [filename |-> input_file.name, success |-> TRUE, error |-> NoneVal]
    ELSE IF eng.kind = "nonzero"
    THEN [filename |-> input_file.name, success |-> FALSE,
          error |-> Prefix(eng.stderr, TruncLen)]
    ELSE IF eng.kind = "timeout"
    THEN [filename |-> input_file.name, success |-> FALSE,
          error |-> TimedOutAfterText]
    ELSE [filename |-> input_file.name, success |-> FALSE,
          error |-> LaunchErrText]

\* -------------------------------------------------------------- state
VARIABLES
    harness,          \* "random" or "bench": which script runs
    pc,               \* where main() is
    input_dir,        \* names of the *.json files of the input directory
    allocated_dir,    \* names of the files of the output directory
    workload_files,   \* main's list of input paths
    submitted,        \* how many of them the submit loop has submitted
    work_queue,       \* the executor's queue of work items
    num_threads,      \* worker threads the executor has created
    running,          \* work items a worker is executing
    futures,          \* name -> the future's state and the tuple returned
    yielded,          \* names whose future as_completed has yielded
    performance_data, \* the random harness's list of records
    successful,
    failed,
    failed_files,
    result_csv,       \* the performance log file: whether it exists, its rows
    exit_code,        \* main's return value, or -1 while it runs
    invoked,          \* history: the engine command lines started, in order
    engine_outcome,   \* history: name -> what the engine did with it
    prior_outputs     \* history: the output directory before the run

VARIABLES
    bench_generator,  \* the WorkloadGenerator: total_txns, max_key, cases, random
    benchmark_dir,    \* the benchmark files, sorted by name: their contents
    bench_workload_dir, \* file name -> the workload written into it
    bg_file,          \* position of the loop over the benchmark files
    bg_case,          \* case_num of the loop over the cases; 0: file not opened
    bg_return,        \* generate_from_benchmarks: "running", "True" or "False"
    bg_instances      \* history: file name -> the transactions as instantiated

VARIABLES
    random_generator, \* the RandomWorkloadGenerator: its five parameters
    random_workload_dir, \* file name -> the workload written into it
    rg_case,          \* case_num of the loop over the cases
    rg_return,        \* generate_workloads: "running", "True" or "False"
    rg_paths          \* history: file name -> transaction name -> generating path

VARIABLES
    analysis_csv,     \* the analysis file: whether it exists, its rows
    an_return,        \* generate_analysis_csv: "running", "True" or "False"
    an_passes,        \* history: pass -> its baseline and the records it used
    prior_analysis,   \* history: the analysis file before the run
    plotted           \* what create_plots_from_analysis_csv has read, if it has

VARIABLES
    exp_experiment,   \* random_workload_for_test: position in the experiments
    exp_value,        \* position in the values of the experiment
    exp_return        \* its main(): "running", "True" (0) or "False" (1)

vars == <<harness, pc, input_dir, allocated_dir, workload_files, submitted,
          work_queue, num_threads, running, futures, yielded,
          performance_data, successful, failed, failed_files, result_csv,
          exit_code, invoked, engine_outcome, prior_outputs>>

benchgen_vars == <<bench_generator, benchmark_dir, bench_workload_dir, bg_file,
                   bg_case, bg_return, bg_instances>>
randgen_vars == <<random_generator, random_workload_dir, rg_case, rg_return,
                  rg_paths>>
analyzer_vars == <<analysis_csv, an_return, an_passes, prior_analysis, plotted>>
experiment_vars == <<exp_experiment, exp_value, exp_return>>
allvars == <<vars, benchgen_vars, randgen_vars, analyzer_vars, experiment_vars>>

\* A part that does not run.
HarnessIdle ==
    /\ harness = "random"
    /\ pc = "exit"
    /\ input_dir = {}
    /\ allocated_dir = {}
    /\ prior_outputs = {}
    /\ workload_files = <<>>
    /\ submitted = 0
    /\ work_queue = <<>>
    /\ num_threads = 0
    /\ running = {}
    /\ futures = <<>>
    /\ yielded = {}
    /\ performance_data = <<>>
    /\ successful = 0
    /\ failed = 0
    /\ failed_files = <<>>
    /\ exit_code = -1
    /\ invoked = <<>>
    /\ engine_outcome = <<>>
LogAbsent == result_csv = [exists |-> FALSE, rows |-> <<>>]
BenchGenIdle ==
    /\ bench_generator = <<>>
    /\ benchmark_dir = <<>>
    /\ bench_workload_dir = <<>>
    /\ bg_file = 0
    /\ bg_case = 0
    /\ bg_return = "idle"
    /\ bg_instances = <<>>
RandGenIdle ==
    /\ random_generator = <<>>
    /\ random_workload_dir = <<>>
    /\ rg_case = 0
    /\ rg_return = "idle"
    /\ rg_paths = <<>>
AnalyzerIdle ==
    /\ analysis_csv = [exists |-> FALSE, rows |-> <<>>]
    /\ an_return = "idle"
    /\ an_passes = <<>>
    /\ prior_analysis = analysis_csv
    /\ plotted = [called |-> FALSE, read |-> FALSE, rows |-> <<>>]
ExperimentIdle ==
    /\ exp_experiment = 0
    /\ exp_value = 0
    /\ exp_return = "idle"

pool == <<work_queue, num_threads, running, futures>>
tally == <<performance_data, successful, failed, failed_files, yielded>>
history == <<invoked, engine_outcome, prior_outputs>>

\* ------------------------------------------------------------- paths
\* project_dir / 'data' / ...: the input and the output directory
InputDirName ==
    IF harness = "random" THEN "random_workload" ELSE "bench_workload"
OutputDirName ==
    IF harness = "random" THEN "allocated_random_workload"
    ELSE "allocated_bench_workload"
\* A name of the output directory that is no input file's name.
StaleName == 0

\* Faulty variant: the output is written beside the input.
output_path_beside_input(input_file) ==
    [dir |-> InputDirName, name |-> input_file.name]

\* Faulty variant: every invocation is given one fixed output name.
output_path_fixed_name(input_file) == [dir |-> OutputDirName, name |-> StaleName]

\* input_file: an entry of  <input dir>.glob('*.json')
input_path(name) == [dir |-> InputDirName, name |-> name]
\* output_file = allocated_dir / input_file.name
output_path(input_file) == [dir |-> OutputDirName, name |-> input_file.name]

InitHarness ==
    /\ harness \in {"random", "bench"}
    /\ \E n \in 0..(IF harness = "random" THEN MaxShuffled ELSE MaxFiles) :
           input_dir = 1..n
    /\ allocated_dir \in SUBSET {StaleName}
    /\ prior_outputs = allocated_dir
    /\ pc = "start"
    /\ workload_files = <<>>
    /\ submitted = 0
    /\ work_queue = <<>>
    /\ num_threads = 0
    /\ running = {}
    /\ futures = <<>>
    /\ yielded = {}
    /\ performance_data = <<>>
    /\ successful = 0
    /\ failed = 0
    /\ failed_files = <<>>
    /\ result_csv = [exists |-> FALSE, rows |-> <<>>]
    /\ exit_code = -1
    /\ invoked = <<>>
    /\ engine_outcome = <<>>
    /\ BenchGenIdle /\ RandGenIdle /\ AnalyzerIdle /\ ExperimentIdle

\* ------------------------------------------------------------ main()
\* random.shuffle(workload_files): every order is possible.
shuffle(files) == {[k \in 1..Len(files) |-> input_path(p[k])] :
                      p \in Perms({files[k].name : k \in 1..Len(files)})}

\* Faulty variant: the glob result is not sorted.
workload_orders_unsorted(names) ==
    {[k \in 1..Len(p) |-> input_path(p[k])] : p \in Perms(names)}

\* The orders main() may submit in: sorted(glob('*.json')), which the random
\* harness then shuffles.
workload_orders(names) ==
    LET files == [k \in 1..Cardinality(names) |-> input_path(sorted(names)[k])]
    IN IF harness = "random" THEN shuffle(files) ELSE {files}

\* main() up to the executor: the prerequisite checks (each returns 1), mkdir
\* of the output directory (exist_ok: its files stay), the file list.
Setup ==
    /\ pc = "start"
    /\ \E dir_exists, classes_exist \in BOOLEAN :
           IF ~dir_exists \/ ~classes_exist \/ Cardinality(input_dir) = 0
           THEN /\ exit_code' = 1
                /\ pc' = "exit"
                /\ UNCHANGED workload_files
           ELSE /\ workload_files' \in workload_orders(input_dir)
                /\ pc' = "submit"
                /\ UNCHANGED exit_code
    /\ UNCHANGED <<harness, input_dir, allocated_dir, submitted, pool, tally,
                   result_csv, history>>
    /\ UNCHANGED <<benchgen_vars, randgen_vars, analyzer_vars, experiment_vars>>

\* ------------------------------------------------- ThreadPoolExecutor
NoResult == [filename |-> StaleName, success |-> FALSE, error |-> NoneVal]
Pending == [state |-> "PENDING", result |-> NoResult]
Running == [state |-> "RUNNING", result |-> NoResult]
Finished(result) == [state |-> "FINISHED", result |-> result]

\* Faulty variant: a thread for every submitted item.
adjust_thread_count_unbounded(n) == n + 1

\* ThreadPoolExecutor(max_workers=max_workers), on submit: a worker thread is
\* created while fewer than max_workers exist.  The new number of threads.
\* (Python 3.8 and later create none while a worker is idle, which removes
\* runs and adds none.)
adjust_thread_count(n) == IF n < max_workers THEN n + 1 ELSE n

\* Faulty variant: the item taken stays in the queue.
dequeue_keeps_item(q) == q

\* The item a free worker takes from the queue, and the queue it leaves.
next_work_item(q) == Head(q)
dequeue(q) == Tail(q)

\* executor.submit(allocate_file, input_file, output_file, classpath) for the
\* next file of the list; after the last one main() goes on to as_completed.
Submit ==
    /\ pc = "submit"
    /\ submitted < Len(workload_files)
    /\ LET input_file == workload_files[submitted + 1]
           output_file == output_path(input_file)
       IN /\ work_queue' = Append(work_queue,
                 [input_file |-> input_file, output_file |-> output_file])
          /\ futures' = futures @@ (input_file.name :> Pending)
    /\ num_threads' = adjust_thread_count(num_threads)
    /\ submitted' = submitted + 1
    /\ pc' = IF submitted' = Len(workload_files) THEN "collect" ELSE "submit"
    /\ UNCHANGED <<harness, input_dir, allocated_dir, workload_files, running,
                   tally, result_csv, exit_code, history>>
    /\ UNCHANGED <<benchgen_vars, randgen_vars, analyzer_vars, experiment_vars>>

\* A worker thread that runs no item takes the next one and starts the engine
\* on it (subprocess.run of the command line).
WorkerStart ==
    /\ work_queue # <<>>
    /\ Cardinality(running) < num_threads
    /\ LET item == next_work_item(work_queue)
       IN /\ running' = running \cup {item}
          /\ futures' = [futures EXCEPT ![item.input_file.name] = Running]
          /\ invoked' = Append(invoked, item)
    /\ work_queue' = dequeue(work_queue)
    /\ UNCHANGED <<harness, pc, input_dir, allocated_dir, workload_files,
                   submitted, num_threads, tally, result_csv,
                   exit_code, engine_outcome, prior_outputs>>
    /\ UNCHANGED <<benchgen_vars, randgen_vars, analyzer_vars, experiment_vars>>

allocate_file(input_file, eng) ==
    IF harness = "random" THEN allocate_file_random(input_file, eng)
    ELSE allocate_file_bench(input_file, eng)

Failures == Cardinality({n \in DOMAIN engine_outcome :
                            engine_outcome[n].kind # "exit0"})

\* The engine ends one way or another, allocate_file returns its tuple, the
\* future is finished and the worker is free again.
WorkerFinish ==
    \E item \in running, eng \in EngineOutcomes :
        /\ eng.kind # "exit0" => Failures < MaxFailures
        /\ running' = running \ {item}
        /\ futures' = [futures EXCEPT ![item.input_file.name] =
                           Finished(allocate_file(item.input_file, eng))]
        /\ allocated_dir' =
               IF eng.wrote /\ item.output_file.dir = OutputDirName
               THEN allocated_dir \cup {item.output_file.name}
               ELSE allocated_dir
        /\ engine_outcome' = engine_outcome @@ (item.input_file.name :> eng)
        /\ UNCHANGED <<harness, pc, input_dir, workload_files, submitted,
                       work_queue, num_threads, tally, result_csv, exit_code,
                       invoked, prior_outputs>>
        /\ UNCHANGED <<benchgen_vars, randgen_vars, analyzer_vars, experiment_vars>>

\* ------------------------------------------------ main(): as_completed
\* Faulty variant: after the first failure every later file is recorded as failed.
record_status_sticky(success) ==
    IF success /\ failed = 0 THEN "success" ELSE "failed"

record_status(success) == IF success THEN "success" ELSE "failed"

\* Faulty variant: only successful invocations are logged.
append_record_success_only(data, result) ==
    IF result.success
    THEN Append(data, [filename |-> result.filename, status |-> "success",
                       error_message |-> EmptyStr])
    ELSE data

\* performance_data.append({...}) of one returned tuple
append_record(data, result) ==
    Append(data, [filename |-> result.filename,
                  status |-> record_status(result.success),
                  error_message |-> IF result.error = NoneVal THEN EmptyStr
                                    ELSE result.error])

\* One iteration of  for future in as_completed(futures): a finished future
\* is yielded, its tuple recorded (random harness) and counted.  After the
\* last one the executor is shut down; every worker is idle by then.
Collect ==
    /\ pc = "collect"
    /\ \E name \in DOMAIN futures \ yielded :
           /\ futures[name].state = "FINISHED"
           /\ LET result == futures[name].result
              IN /\ performance_data' =
                        IF harness = "random"
                        THEN append_record(performance_data, result)
                        ELSE performance_data
                 /\ IF result.success
                    THEN /\ successful' = successful + 1
                         /\ UNCHANGED <<failed, failed_files>>
                    ELSE /\ failed' = failed + 1
                         /\ failed_files' = Append(failed_files, result.filename)
                         /\ UNCHANGED successful
           /\ yielded' = yielded \cup {name}
    /\ pc' = IF yielded' = DOMAIN futures THEN "report" ELSE "collect"
    /\ UNCHANGED <<harness, input_dir, allocated_dir, workload_files,
                   submitted, pool, result_csv, exit_code, history>>
    /\ UNCHANGED <<benchgen_vars, randgen_vars, analyzer_vars, experiment_vars>>

\* Faulty variant: the summary always returns 0.
exit_status_always_zero(nfailed) == 0

\* main's return value once the log is written
exit_status(nfailed) == IF nfailed > 0 THEN 1 ELSE 0

\* main() after the executor: the random harness writes performance_data to
\* the CSV log (return 1 when that raises); both print the summary and return
\* 1 when a file failed, else 0.
Report ==
    /\ pc = "report"
    /\ \E csv_ok \in BOOLEAN :
           IF harness = "random" /\ ~csv_ok
           THEN /\ exit_code' = 1
                /\ result_csv' \in {result_csv, [exists |-> TRUE, rows |-> <<>>]}
           ELSE /\ exit_code' = exit_status(failed)
                /\ result_csv' = IF harness = "random"
                                 THEN [exists |-> TRUE, rows |-> performance_data]
                                 ELSE result_csv
    /\ pc' = "exit"
    /\ UNCHANGED <<harness, input_dir, allocated_dir, workload_files,
                   submitted, pool, tally, history>>
    /\ UNCHANGED <<benchgen_vars, randgen_vars, analyzer_vars, experiment_vars>>

NextHarness == Setup \/ Submit \/ WorkerStart \/ WorkerFinish \/ Collect \/ Report

SpecHarness == InitHarness /\ [][NextHarness]_allvars

\* =================================================================
\* Properties of the Execution Harness
\* =================================================================
FileNames == {workload_files[k].name : k \in 1..Len(workload_files)}
\* The as_completed loop is over: every submitted file has been collected.
Collected == pc \in {"report", "exit"} /\ Len(workload_files) > 0
RecordsOf(data, name) == {k \in 1..Len(data) : data[k].filename = name}
Succeeded(name) == name \in DOMAIN engine_outcome
                   /\ engine_outcome[name].kind = "exit0"
NotSucceeded(name) == name \in DOMAIN engine_outcome
                      /\ engine_outcome[name].kind # "exit0"
\* Engine invocations started and not yet ended.
InFlight == Len(invoked) - Cardinality(DOMAIN engine_outcome)

\* C1: in the random harness, whatever the engine does (exit 0, non-zero exit,
\* timeout, exception), no file ever has two records, and once the run has
\* collected its futures every submitted file has exactly one record in
\* performance_data; the log file, when written, holds exactly these records.
C1_OneRecordPerFile ==
    harness = "random" =>
        /\ \A n \in input_dir : Cardinality(RecordsOf(performance_data, n)) <= 1
        /\ Collected =>
               \A n \in FileNames :
                   Cardinality(RecordsOf(performance_data, n)) = 1
        /\ (pc = "exit" /\ result_csv.rows # <<>>) =>
               /\ result_csv.rows = performance_data
               /\ \A n \in FileNames :
                      Cardinality(RecordsOf(result_csv.rows, n)) = 1

C1_Witness ==
    /\ harness = "random"
    /\ pc = "exit"
    /\ Len(result_csv.rows) = 2
    /\ \E n \in FileNames : NotSucceeded(n)
    /\ \E n \in FileNames : Succeeded(n)

\* C2: at every moment at most max_workers = 4 engine invocations have started
\* and not yet ended.
C2_AtMostWInFlight == InFlight <= max_workers

C2_Witness ==
    /\ InFlight = max_workers
    /\ work_queue # <<>>

\* C3: a failing invocation does not abort the batch and touches no other
\* file's result: every submitted file is invoked and collected, and the
\* status recorded for a file is success exactly when its own engine run ended
\* with exit code 0, whatever happened to the other files.
C3_FailureIsolation ==
    /\ Collected =>
           /\ FileNames = {invoked[k].input_file.name : k \in 1..Len(invoked)}
           /\ yielded = FileNames
    /\ \A k \in 1..Len(performance_data) :
           performance_data[k].status =
               IF Succeeded(performance_data[k].filename)
               THEN "success" ELSE "failed"
    /\ Range(failed_files) = {n \in yielded : NotSucceeded(n)}
    /\ successful = Cardinality({n \in yielded : Succeeded(n)})

C3_Witness ==
    /\ pc = "exit"
    /\ harness = "random"
    /\ \E k \in 1..Len(performance_data) :
           /\ performance_data[k].status = "failed"
           /\ \E j \in (k + 1)..Len(performance_data) :
                  performance_data[j].status = "success"

\* C4: in both harnesses main returns 0 only if every submitted file was
\* recorded as success, and returns non-zero whenever a file failed or timed
\* out.
C4_ExitStatus ==
    pc = "exit" =>
        /\ exit_code = 0 =>
               /\ Len(workload_files) > 0
               /\ \A n \in FileNames :
                      /\ n \in yielded
                      /\ futures[n].result.success
                      /\ Succeeded(n)
        /\ (\E n \in DOMAIN engine_outcome : NotSucceeded(n)) => exit_code # 0
        /\ exit_code \in {0, 1}

C4_Witness ==
    /\ pc = "exit"
    /\ harness = "bench"
    /\ exit_code = 1
    /\ Len(failed_files) = 1
    /\ successful = max_workers

\* C5: an engine run that ends with a non-zero exit code is returned as failed
\* with the first 200 characters of its diagnostic output as the error
\* message, and a run is returned as success exactly when the exit code is 0.
C5_NonzeroExitKeepsDiagnostic ==
    \A n \in DOMAIN engine_outcome :
        /\ futures[n].result.success <=> engine_outcome[n].kind = "exit0"
        /\ engine_outcome[n].kind = "nonzero" =>
               futures[n].result.error =
                   Prefix(engine_outcome[n].stderr, TruncLen)

\* C6: in the random harness a timed-out invocation gets exactly one record,
\* with status failed and the message "Timeout (>300s)"; no other outcome gets
\* that message; and the run still collects every other file.
C6_TimeoutRecorded ==
    harness = "random" =>
        /\ \A k \in 1..Len(performance_data) :
               LET r == performance_data[k]
               IN /\ engine_outcome[r.filename].kind = "timeout" =>
                         r.status = "failed" /\ r.error_message = TimeoutText
                  /\ engine_outcome[r.filename].kind # "timeout" =>
                         r.error_message # TimeoutText
        /\ \A n \in DOMAIN engine_outcome :
               engine_outcome[n].kind = "timeout" =>
                   /\ Cardinality(RecordsOf(performance_data, n)) <= 1
                   /\ Collected =>
                          /\ Cardinality(RecordsOf(performance_data, n)) = 1
                          /\ Len(performance_data) = Len(workload_files)

C6_Witness ==
    /\ harness = "random"
    /\ pc = "exit"
    /\ \E k, j \in 1..Len(performance_data) :
           /\ performance_data[k].error_message = TimeoutText
           /\ engine_outcome[performance_data[k].filename].kind = "timeout"
           /\ performance_data[j].status = "success"

\* C7: no file is passed to the engine twice, a failed or timed-out file
\* included, and when the run has collected its futures every file has been
\* passed to it exactly once.
C7_InvokedOnce ==
    /\ \A a, b \in 1..Len(invoked) :
           a # b => invoked[a].input_file # invoked[b].input_file
    /\ Collected =>
           \A n \in FileNames :
               Cardinality({k \in 1..Len(invoked) :
                               invoked[k].input_file = input_path(n)}) = 1

C7_Witness ==
    /\ pc = "exit"
    /\ Len(invoked) = MaxFiles
    /\ \E n \in FileNames : NotSucceeded(n) /\ engine_outcome[n].kind = "timeout"

C9_DistinctOutputPaths ==
    /\ \A a, b \in 1..Len(invoked) :
           a # b => invoked[a].output_file # invoked[b].output_file
    /\ \A a \in 1..Len(invoked) :
           /\ invoked[a].output_file \notin {input_path(n) : n \in input_dir}
           /\ invoked[a].output_file =
                  [dir |-> OutputDirName, name |-> invoked[a].input_file.name]

C9_Witness ==
    /\ Cardinality(running) = max_workers
    /\ Cardinality({it.output_file : it \in running}) = max_workers

\* Every engine invocation of a finished run of the random harness succeeded.
AllSucceeded ==
    /\ harness = "random"
    /\ pc = "exit"
    /\ Len(workload_files) > 0
    /\ \A n \in FileNames : Succeeded(n)

\* C10 as stated: F files, all succeeding, give F records, all success, and
\* an output directory of exactly F files.
C10_ExactlyFOutputs ==
    AllSucceeded =>
        /\ Len(performance_data) = Len(workload_files)
        /\ \A k \in 1..Len(performance_data) :
               performance_data[k].status = "success"
        /\ Cardinality(allocated_dir) = Len(workload_files)

\* C10 amended: F files, all succeeding, give F records, all success, and the
\* output directory then holds the F output files named as the inputs beside
\* whatever it held before the run; exactly F files when it held none that is
\* not named as an input.
C10_FOutputsBesidePrior ==
    AllSucceeded =>
        /\ Len(performance_data) = Len(workload_files)
        /\ \A k \in 1..Len(performance_data) :
               performance_data[k].status = "success"
        /\ allocated_dir = prior_outputs \cup FileNames
        /\ Cardinality(FileNames) = Len(workload_files)
        /\ prior_outputs \subseteq FileNames =>
               Cardinality(allocated_dir) = Len(workload_files)

C10_Witness ==
    /\ AllSucceeded
    /\ Len(workload_files) = MaxShuffled
    /\ prior_outputs = {}
    /\ Cardinality(allocated_dir) = MaxShuffled

\* =================================================================
\* Part 2: the Template Instantiator (generate_bench_workload.py)
\* =================================================================
\* ------------------------------------------------------------------ bounds
\* Largest total_txns (-t) of a run of the Template Instantiator.
MaxTxns == 4
\* Largest number of cases (-c) of a run.
MaxCases == 2
\* Most benchmark files in the benchmark directory.
MaxBenchFiles == 2
\* The values of max_key (-k).
KeyLimits == {1, 3}
\* The states random.Random() may start in: seeded from the clock or the
\* system's entropy, it is none of the streams seed(case_num) starts.
EntropySeeds == {-1, -2}

\* ------------------------------------------------------ random.Random
\* The stream is a deterministic function of the seed and of how many values
\* were drawn since.  The model's generator: the value in 1..n drawn next.
random_value(rng, n) ==
    (((rng.seed * 7 + rng.pos * 3 + rng.seed * rng.pos + 20) % 11) % n) + 1
random_next(rng) == [rng EXCEPT !.pos = @ + 1]

\* Faulty variant: seed() leaves the stream where it is.
seed_ignored(rng, a) == rng

\* self.random.seed(a)
seed(rng, a) == [seed |-> a, pos |-> 0]

\* Faulty variant: x[i] = x[j] alone, the element at i is lost.
Swap_overwrites(x, i, j) == [x EXCEPT ![i] = x[j]]

Swap(x, i, j) == [x EXCEPT ![i] = x[j], ![j] = x[i]]

\* random.shuffle(x):  for i in reversed(range(1, len(x))): j = randbelow(i + 1);
\* x[i], x[j] = x[j], x[i]   (positions counted from 1 here)
RECURSIVE fisher_yates(_, _, _)
fisher_yates(x, i, rng) ==
    IF i < 2 THEN [list |-> x, rng |-> rng]
    ELSE fisher_yates(Swap(x, i, random_value(rng, i)), i - 1, random_next(rng))

random_shuffle(x, rng) == fisher_yates(x, Len(x), rng)

\* ------------------------------------------------------------- texts
\* str(n)
str(n) == ToString(n)

\* "_".join(parts)
RECURSIVE join(_)
join(parts) ==
    IF Len(parts) = 0 THEN <<>>
    ELSE IF Len(parts) = 1 THEN <<parts[1]>>
    ELSE <<parts[1], "_">> \o join(Tail(parts))

\* Faulty variant: only the first referenced value enters the key.
concrete_key_first_only(table, instance_nums) ==
    <<table, "_">> \o join(SubSeq(instance_nums, 1, Min(1, Len(instance_nums))))

\* concrete_key = table + "_" + "_".join(instance_nums)
concrete_key(table, instance_nums) == <<table, "_">> \o join(instance_nums)

\* d.get(key, default) of a JSON object
get(d, key, default) == IF key \in DOMAIN d THEN d[key] ELSE default

\* ---------------------------------------------- instantiate_template
\* Faulty variant: an UPDATE is passed on as it is.
expand_keeps_update(op_id, op_type, key) ==
    <<[id |-> op_id, type |-> op_type, key |-> key]>>

\* The operations one template operation becomes: READ then WRITE for an
\* UPDATE, the operation itself otherwise.
expand(op_id, op_type, key) ==
    IF op_type = "UPDATE"
    THEN <<[id |-> op_id, type |-> "READ", key |-> key],
           [id |-> op_id, type |-> "WRITE", key |-> key]>>
    ELSE <<[id |-> op_id, type |-> op_type, key |-> key]>>

\* The names op.get('params') refers to: those of a list, or the one string.
\* (A reference is the record of its names and of whether it is a list.)
referenced(op) == op.params.names

\* instantiate_template(template_ops, param_values), with the stream it draws
\* from: the concrete operations, the stream afterwards, and whether it raised
\* ValueError (a referenced name that param_values does not hold).
RECURSIVE instantiate_template(_, _, _)
instantiate_template(template_ops, param_values, rng) ==
    IF Len(template_ops) = 0
    THEN [ops |-> <<>>, rng |-> rng, error |-> FALSE]
    ELSE LET op == Head(template_ops)
             has_ref == "params" \in DOMAIN op
             missing == has_ref /\ \E k \in 1..Len(referenced(op)) :
                            referenced(op)[k] \notin DOMAIN param_values
         IN IF missing
            THEN [ops |-> <<>>, rng |-> rng, error |-> TRUE]
            ELSE LET instance_nums ==
                         IF has_ref
                         THEN [k \in 1..Len(referenced(op)) |->
                                   str(param_values[referenced(op)[k]])]
                         ELSE <<str(random_value(rng, bench_generator.max_key))>>
                     rng1 == IF has_ref THEN rng ELSE random_next(rng)
                     rest == instantiate_template(Tail(template_ops),
                                                  param_values, rng1)
                 IN [ops |-> expand(op.id, op.type,
                                    concrete_key(op.key, instance_nums))
                             \o rest.ops,
                     rng |-> rest.rng,
                     error |-> rest.error]

\* ------------------------------------------ generate_from_benchmarks
max(a, b) == IF a > b THEN a ELSE b

\* round(n / d) of Python 3: to the nearest integer, a tie to the even one.
round(n, d) ==
    LET q == n \div d
        r == n % d
    IN IF 2 * r < d THEN q
       ELSE IF 2 * r > d THEN q + 1
       ELSE IF q % 2 = 0 THEN q ELSE q + 1

\* Faulty variant: a template may get no instance at all.
instance_count_unclamped(total_txns, percentage) ==
    round(total_txns * percentage.num, percentage.den)

\* count = max(1, round(self.total_txns * percentage)); a percentage is the
\* fraction num/den.
instance_count(total_txns, percentage) ==
    max(1, round(total_txns * percentage.num, percentage.den))

DefaultPercentage == [num |-> 1, den |-> 20]

\* for param_name in params: param_values[param_name] = randint(1, max_key)
RECURSIVE draw_param_values(_, _, _)
draw_param_values(params, param_values, rng) ==
    IF Len(params) = 0 THEN [values |-> param_values, rng |-> rng]
    ELSE draw_param_values(
             Tail(params),
             (Head(params) :> random_value(rng, bench_generator.max_key))
                 @@ param_values,
             random_next(rng))

\* txn_name = f"{name}_{i + 1}": the name and the number after its last "_"
txn_name(name, i) == <<name, "_", str(i)>>

\* for i in range(count): the instances i..count of one template (i counted
\* from 1), t being the template's position in the file.
RECURSIVE instantiate_instances(_, _, _, _, _)
instantiate_instances(template, t, i, count, rng) ==
    IF i > count THEN [transactions |-> <<>>, rng |-> rng, error |-> FALSE]
    ELSE LET bound == draw_param_values(get(template, "params", <<>>), <<>>, rng)
             inst == instantiate_template(get(template, "operations", <<>>),
                                          bound.values, bound.rng)
         IN IF inst.error
            THEN [transactions |-> <<>>, rng |-> inst.rng, error |-> TRUE]
            ELSE LET rest == instantiate_instances(template, t, i + 1, count,
                                                   inst.rng)
                 IN [transactions |->
                         <<[name |-> txn_name(get(template, "name", "unknown"), i),
                            isolationLevel |->
                                get(template, "isolationLevel", "SERIALIZABLE"),
                            operations |-> inst.ops,
                            template |-> t,
                            param_values |-> bound.values]>>
                         \o rest.transactions,
                     rng |-> rest.rng,
                     error |-> rest.error]

\* for template in templates: the transactions of the templates t.. of a file
RECURSIVE instantiate_templates(_, _, _)
instantiate_templates(templates, t, rng) ==
    IF t > Len(templates) THEN [transactions |-> <<>>, rng |-> rng, error |-> FALSE]
    ELSE LET count == instance_count(bench_generator.total_txns,
                                     get(templates[t], "percentage",
                                         DefaultPercentage))
             these == instantiate_instances(templates[t], t, 1, count, rng)
         IN IF these.error
            THEN [transactions |-> <<>>, rng |-> these.rng, error |-> TRUE]
            ELSE LET rest == instantiate_templates(templates, t + 1, these.rng)
                 IN [transactions |-> these.transactions \o rest.transactions,
                     rng |-> rest.rng,
                     error |-> rest.error]

\* The body of  for case_num in range(1, self.cases + 1)  up to the shuffle:
\* the stream is seeded with case_num, the templates are instantiated, the
\* transactions shuffled.
generate_case(templates, case_num, rng) ==
    LET built == instantiate_templates(templates, 1, seed(rng, case_num))
        shuffled == random_shuffle(built.transactions, built.rng)
    IN [transactions |-> shuffled.list, rng |-> shuffled.rng,
        error |-> built.error]

\* What json.dump writes of a transaction: name, isolationLevel, operations.
workload_json(transactions) ==
    [templates |->
        [k \in 1..Len(transactions) |->
            [name |-> transactions[k].name,
             isolationLevel |-> transactions[k].isolationLevel,
             operations |-> transactions[k].operations]]]

\* f"{benchmark_name}_{self.total_txns}t_{self.max_key}k_{case_num}.json"
bench_workload_name(benchmark_name, case_num) ==
    <<str(benchmark_name), "_", str(bench_generator.total_txns), "t_",
      str(bench_generator.max_key), "k_", str(case_num), ".json">>

\* ------------------------------------------------- benchmark files
ReadAccount == [id |-> 1, type |-> "READ", key |-> "Account",
                params |-> [is_list |-> FALSE, names |-> <<"N1">>]]
UpdateSaving == [id |-> 2, type |-> "UPDATE", key |-> "Saving",
                 params |-> [is_list |-> TRUE, names |-> <<"N2", "N1">>]]
WriteChecking == [id |-> 3, type |-> "WRITE", key |-> "Checking"]
UpdateItem == [id |-> 1, type |-> "UPDATE", key |-> "Item"]
ReadSaving == [id |-> 4, type |-> "READ", key |-> "Saving",
               params |-> [is_list |-> TRUE, names |-> <<"N2", "N1">>]]
UpdateStock == [id |-> 2, type |-> "UPDATE", key |-> "Stock",
                params |-> [is_list |-> TRUE, names |-> <<>>]]
ReadUndeclared == [id |-> 2, type |-> "READ", key |-> "Account",
                   params |-> [is_list |-> FALSE, names |-> <<"N9">>]]

Balance == [name |-> "Balance", isolationLevel |-> "SNAPSHOT_ISOLATION",
            percentage |-> [num |-> 1, den |-> 2], params |-> <<"N1", "N2">>,
            operations |-> <<ReadAccount, UpdateSaving, WriteChecking, ReadSaving>>]
Deposit == [name |-> "Deposit", percentage |-> [num |-> 0, den |-> 1],
            params |-> <<"N1">>, operations |-> <<UpdateItem, ReadAccount>>]
Anonymous == [operations |-> <<WriteChecking>>]
Audit == [percentage |-> [num |-> 1, den |-> 1], params |-> <<"N1", "N1">>,
          operations |-> <<ReadAccount, UpdateStock>>]
Transfer == [name |-> "Transfer", percentage |-> [num |-> 1, den |-> 4],
             params |-> <<"N1">>,
             operations |-> <<ReadAccount, ReadUndeclared>>]

\* What a benchmark file may hold: templates, none, or no JSON at all.
BenchmarkFiles ==
    {[templates |-> <<Balance, Deposit>>],
     [templates |-> <<Anonymous, Audit>>],
     [templates |-> <<Deposit, Transfer>>],
     [templates |-> <<>>],
     [description |-> "none"],
     [malformed |-> TRUE]}

\* ------------------------------------------------------------ actions
InitBenchGen ==
    /\ HarnessIdle /\ LogAbsent /\ RandGenIdle /\ AnalyzerIdle /\ ExperimentIdle
    /\ \E total_txns \in 1..MaxTxns, max_key \in KeyLimits,
          cases \in 1..MaxCases, s \in EntropySeeds :
           bench_generator = [total_txns |-> total_txns, max_key |-> max_key,
                              cases |-> cases,
                              random |-> [seed |-> s, pos |-> 0]]
    /\ \E n \in 0..MaxBenchFiles : benchmark_dir \in [1..n -> BenchmarkFiles]
    /\ bench_workload_dir = <<>>
    /\ bg_file = 0
    /\ bg_case = 0
    /\ bg_return = "running"
    /\ bg_instances = <<>>

\* generate_from_benchmarks up to its loop: False when the benchmark directory
\* is missing or holds no file.
BenchStart ==
    /\ bg_return = "running"
    /\ bg_file = 0
    /\ \E dir_exists \in BOOLEAN :
           IF ~dir_exists \/ Len(benchmark_dir) = 0
           THEN bg_return' = "False" /\ UNCHANGED bg_file
           ELSE bg_file' = 1 /\ UNCHANGED bg_return
    /\ UNCHANGED <<bench_generator, benchmark_dir, bench_workload_dir, bg_case,
                   bg_instances>>
    /\ UNCHANGED <<vars, randgen_vars, analyzer_vars, experiment_vars>>

\* The next benchmark file is loaded: json.load raising ends the run with
\* False, a file without templates is passed over.
OpenBenchmark ==
    /\ bg_return = "running"
    /\ bg_file \in 1..Len(benchmark_dir)
    /\ bg_case = 0
    /\ LET benchmark_data == benchmark_dir[bg_file]
       IN IF "malformed" \in DOMAIN benchmark_data
          THEN bg_return' = "False" /\ UNCHANGED <<bg_file, bg_case>>
          ELSE IF Len(get(benchmark_data, "templates", <<>>)) = 0
               THEN bg_file' = bg_file + 1 /\ UNCHANGED <<bg_return, bg_case>>
               ELSE bg_case' = 1 /\ UNCHANGED <<bg_return, bg_file>>
    /\ UNCHANGED <<bench_generator, benchmark_dir, bench_workload_dir,
                   bg_instances>>
    /\ UNCHANGED <<vars, randgen_vars, analyzer_vars, experiment_vars>>

\* One case of the open file: seed, instantiate, shuffle, write the workload
\* file.  A ValueError of instantiate_template is caught by the except clause
\* around the file's processing, which returns False.
GenerateCase ==
    /\ bg_return = "running"
    /\ bg_file \in 1..Len(benchmark_dir)
    /\ bg_case >= 1
    /\ LET case == generate_case(benchmark_dir[bg_file].templates, bg_case,
                                 bench_generator.random)
           output_file == bench_workload_name(bg_file, bg_case)
       IN /\ bench_generator' = [bench_generator EXCEPT !.random = case.rng]
          /\ IF case.error
             THEN /\ bg_return' = "False"
                  /\ UNCHANGED <<bench_workload_dir, bg_instances, bg_file, bg_case>>
             ELSE /\ bench_workload_dir' =
                         (output_file :> workload_json(case.transactions))
                             @@ bench_workload_dir
                  /\ bg_instances' =
                         (output_file :> case.transactions) @@ bg_instances
                  /\ IF bg_case < bench_generator.cases
                     THEN bg_case' = bg_case + 1 /\ UNCHANGED bg_file
                     ELSE bg_case' = 0 /\ bg_file' = bg_file + 1
                  /\ UNCHANGED bg_return
    /\ UNCHANGED benchmark_dir
    /\ UNCHANGED <<vars, randgen_vars, analyzer_vars, experiment_vars>>

\* After the last benchmark file: the summary is printed, True returned.
BenchFinish ==
    /\ bg_return = "running"
    /\ bg_file > Len(benchmark_dir)
    /\ bg_return' = "True"
    /\ UNCHANGED <<bench_generator, benchmark_dir, bench_workload_dir, bg_file,
                   bg_case, bg_instances>>
    /\ UNCHANGED <<vars, randgen_vars, analyzer_vars, experiment_vars>>

NextBenchGen == BenchStart \/ OpenBenchmark \/ GenerateCase \/ BenchFinish

SpecBenchGen == InitBenchGen /\ [][NextBenchGen]_allvars

\* =================================================================
\* Properties of the Template Instantiator
\* =================================================================
\* The benchmark file and the case a written workload file belongs to.
BenchmarkOf(f) == CHOOSE b \in 1..Len(benchmark_dir) : str(b) = f[1]
CaseOf(f) == CHOOSE c \in 1..bench_generator.cases : str(c) = f[7]
TemplatesOf(f) == benchmark_dir[BenchmarkOf(f)].templates
\* The transactions of a written file that instantiate its template t.
InstancesOf(f, t) == {k \in 1..Len(bg_instances[f]) : bg_instances[f][k].template = t}
PercentageOf(template) == get(template, "percentage", DefaultPercentage)
\* The integers nearest to n/d (two of them when n/d is halfway between).
Nearest(n, d) == {r \in 0..(n + 1) : 2 * r * d - 2 * n <= d /\ 2 * n - 2 * r * d <= d}
\* Where the operations of template operation k start in the instantiated list.
Offset(template_ops, k) ==
    k - 1 + Cardinality({j \in 1..(k - 1) : template_ops[j].type = "UPDATE"})

\* C11: in every workload file written, every template of the benchmark file
\* has max(1, r) instances, r an integer nearest to total_txns * percentage; a
\* template of percentage 0 has exactly one.
C11_InstanceCount ==
    \A f \in DOMAIN bench_workload_dir :
        /\ Len(bench_workload_dir[f].templates) = Len(bg_instances[f])
        /\ \A t \in 1..Len(TemplatesOf(f)) :
               LET p == PercentageOf(TemplatesOf(f)[t])
                   n == Cardinality(InstancesOf(f, t))
               IN /\ \E r \in Nearest(bench_generator.total_txns * p.num, p.den) :
                         n = max(1, r)
                  /\ p.num = 0 => n = 1

C11_Witness ==
    \E f \in DOMAIN bench_workload_dir :
        \E t, u \in 1..Len(TemplatesOf(f)) :
            /\ PercentageOf(TemplatesOf(f)[t]).num = 0
            /\ Cardinality(InstancesOf(f, t)) = 1
            /\ Cardinality(InstancesOf(f, u)) = 2

\* C12: in every transaction of every workload file written no operation is
\* an UPDATE; every UPDATE of the template has become a READ directly followed
\* by a WRITE, both with the UPDATE's id and with one common key; every other
\* template operation has become one operation of its type and id.
C12_UpdateIsReadThenWrite ==
    \A f \in DOMAIN bench_workload_dir :
        \A k \in 1..Len(bg_instances[f]) :
            LET ops == bench_workload_dir[f].templates[k].operations
                template_ops == get(TemplatesOf(f)[bg_instances[f][k].template],
                                    "operations", <<>>)
            IN /\ \A o \in 1..Len(ops) : ops[o].type # "UPDATE"
               /\ Len(ops) = Offset(template_ops, Len(template_ops) + 1)
               /\ \A j \in 1..Len(template_ops) :
                      LET at == Offset(template_ops, j) + 1
                      IN IF template_ops[j].type = "UPDATE"
                         THEN /\ ops[at].type = "READ"
                              /\ ops[at + 1].type = "WRITE"
                              /\ ops[at].id = template_ops[j].id
                              /\ ops[at + 1].id = template_ops[j].id
                              /\ ops[at].key = ops[at + 1].key
                         ELSE /\ ops[at].type = template_ops[j].type
                              /\ ops[at].id = template_ops[j].id

C12_Witness ==
    \E f \in DOMAIN bench_workload_dir :
        \E k \in 1..Len(bench_workload_dir[f].templates) :
            LET ops == bench_workload_dir[f].templates[k].operations
            IN /\ Len(ops) = 5
               /\ ops[2].type = "READ" /\ ops[3].type = "WRITE"
               /\ ops[2].id = 2 /\ ops[3].id = 2
               /\ ops[2].key = ops[3].key
               /\ TemplatesOf(f)[bg_instances[f][k].template]
                      .operations[2].type = "UPDATE"

\* States the stream may be in when a case begins.
Streams == {[seed |-> s, pos |-> p] :
               s \in EntropySeeds \cup {MaxCases}, p \in {0, MaxTxns}}

\* C13: the content of every workload file written is the one content that
\* its templates, total_txns, max_key and its case number determine: whatever
\* state the random stream is in when the case begins (so whatever was
\* generated before, and however many cases the run has), the case yields it.
C13_DeterministicPerCase ==
    \A f \in DOMAIN bench_workload_dir :
        \A rng \in Streams :
            bench_workload_dir[f] =
                workload_json(generate_case(TemplatesOf(f), CaseOf(f), rng)
                                  .transactions)

C13_Witness ==
    /\ bench_generator.cases = 2
    /\ bench_generator.max_key = 3
    /\ Cardinality(DOMAIN bench_workload_dir) = 4
    /\ bench_generator.random.pos > 0
    /\ \E f, g \in DOMAIN bench_workload_dir :
           /\ BenchmarkOf(f) = BenchmarkOf(g)
           /\ bench_workload_dir[f] # bench_workload_dir[g]

\* A template one of whose operations refers to a parameter it does not declare.
MissingReference(template) ==
    \E k \in 1..Len(get(template, "operations", <<>>)) :
        LET op == template.operations[k]
        IN /\ "params" \in DOMAIN op
           /\ \E j \in 1..Len(referenced(op)) :
                  \A d \in 1..Len(get(template, "params", <<>>)) :
                      template.params[d] # referenced(op)[j]
\* The run has ended on the ValueError of a missing parameter reference.
RaisedConfigurationError ==
    /\ bg_return = "False"
    /\ bg_file \in 1..Len(benchmark_dir)
    /\ bg_case >= 1
    /\ \E t \in 1..Len(benchmark_dir[bg_file].templates) :
           MissingReference(benchmark_dir[bg_file].templates[t])

\* C14 as stated: a run that ends on a missing parameter reference has
\* written no workload file.
C14_NoFileBeforeAbort ==
    RaisedConfigurationError => DOMAIN bench_workload_dir = {}

\* C15 as stated: in every workload file written no two transactions have
\* the same name.
C15_DistinctNames ==
    \A f \in DOMAIN bench_workload_dir :
        LET txns == bench_workload_dir[f].templates
        IN \A i, j \in 1..Len(txns) : i # j => txns[i].name # txns[j].name

\* C16: in every transaction written, every declared parameter of its template
\* is bound to one value of 1..max_key; an operation that refers to parameters
\* has the key  table _ v1 _ ... _ vn  of the values bound to the names it
\* lists, in the listed order (so the same names on the same table give the
\* same key); an operation that refers to none has the key  table _ v  for a
\* v of 1..max_key.
C16_KeysFromBoundValues ==
    \A f \in DOMAIN bench_workload_dir :
        \A k \in 1..Len(bg_instances[f]) :
            LET txn == bg_instances[f][k]
                template == TemplatesOf(f)[txn.template]
                template_ops == get(template, "operations", <<>>)
                params == get(template, "params", <<>>)
                ops == bench_workload_dir[f].templates[k].operations
                bound == txn.param_values
            IN /\ DOMAIN bound = {params[d] : d \in 1..Len(params)}
               /\ \A name \in DOMAIN bound :
                      bound[name] \in 1..bench_generator.max_key
               /\ \A j \in 1..Len(template_ops) :
                      LET op == template_ops[j]
                          key == ops[Offset(template_ops, j) + 1].key
                      IN IF "params" \in DOMAIN op
                         THEN key = <<op.key, "_">> \o
                                  join([n \in 1..Len(referenced(op)) |->
                                            str(bound[referenced(op)[n]])])
                         ELSE \E v \in 1..bench_generator.max_key :
                                  key = <<op.key, "_", str(v)>>

C16_Witness ==
    \E f \in DOMAIN bench_workload_dir :
        \E k \in 1..Len(bg_instances[f]) :
            LET txn == bg_instances[f][k]
                ops == bench_workload_dir[f].templates[k].operations
            IN /\ DOMAIN txn.param_values = {"N1", "N2"}
               /\ txn.param_values["N1"] # txn.param_values["N2"]
               /\ ops[2].key = <<"Saving", "_", str(txn.param_values["N2"]), "_",
                                 str(txn.param_values["N1"])>>
               /\ ops[5].key = ops[2].key
               /\ ops[4].key[1] = "Checking"

\* The number of transactions the templates from t on are instantiated to.
RECURSIVE SumOfInstanceCounts(_, _)
SumOfInstanceCounts(templates, t) ==
    IF t > Len(templates) THEN 0
    ELSE instance_count(bench_generator.total_txns, PercentageOf(templates[t]))
             + SumOfInstanceCounts(templates, t + 1)
\* The ids and types of the template's operations, READ and WRITE in the
\* place of every UPDATE.
RECURSIVE ExpandedTypes(_)
ExpandedTypes(template_ops) ==
    IF Len(template_ops) = 0 THEN <<>>
    ELSE LET op == Head(template_ops)
         IN (IF op.type = "UPDATE"
             THEN <<[id |-> op.id, type |-> "READ"], [id |-> op.id, type |-> "WRITE"]>>
             ELSE <<[id |-> op.id, type |-> op.type]>>)
                \o ExpandedTypes(Tail(template_ops))

\* C24: every workload file written holds the instantiated transactions, each
\* exactly once in some order: as many transactions as the instance counts of
\* its templates add up to, for every template and every instance number up to
\* the template's count exactly one transaction of that name, and in every
\* transaction the ids and types of the template's operations in their order,
\* READ then WRITE in the place of each UPDATE.
C24_ShuffleIsPermutation ==
    \A f \in DOMAIN bench_workload_dir :
        LET written == bench_workload_dir[f].templates
            templates == TemplatesOf(f)
        IN /\ Len(written) = SumOfInstanceCounts(templates, 1)
           /\ Len(written) = Len(bg_instances[f])
           /\ \A t \in 1..Len(templates) :
                  LET count == instance_count(bench_generator.total_txns,
                                              PercentageOf(templates[t]))
                  IN /\ Cardinality(InstancesOf(f, t)) = count
                     /\ \A i \in 1..count :
                            Cardinality({k \in InstancesOf(f, t) :
                                written[k].name =
                                    txn_name(get(templates[t], "name", "unknown"), i)})
                                = 1
           /\ \A k \in 1..Len(written) :
                  [o \in 1..Len(written[k].operations) |->
                      [id |-> written[k].operations[o].id,
                       type |-> written[k].operations[o].type]]
                  = ExpandedTypes(get(templates[bg_instances[f][k].template],
                                      "operations", <<>>))

C24_Witness ==
    \E f \in DOMAIN bench_workload_dir :
        LET written == bench_workload_dir[f].templates
        IN /\ Len(written) >= 3
           /\ \E k, j \in 1..Len(written) :
                  /\ k < j
                  /\ bg_instances[f][k].template > bg_instances[f][j].template
           /\ \E k, j \in 1..Len(written) :
                  /\ k < j
                  /\ bg_instances[f][k].template = bg_instances[f][j].template
                  /\ written[k].name = txn_name(get(TemplatesOf(f)[bg_instances[f][k].template], "name", "unknown"), 2)
                  /\ written[j].name = txn_name(get(TemplatesOf(f)[bg_instances[f][k].template], "name", "unknown"), 1)
           /\ \E k \in 1..Len(written) :
                  \E o \in 1..Len(get(TemplatesOf(f)[bg_instances[f][k].template], "operations", <<>>)) :
                      TemplatesOf(f)[bg_instances[f][k].template].operations[o].type = "UPDATE"

\* =================================================================
\* Part 3: the Random Workload Generator (generate_random_workload.py)
\* =================================================================
\* ------------------------------------------------------------------ bounds
\* Most transactions one run generates: total_txns (-t) times cases (-c).
MaxRunTxns == 3
\* The values of max_ops (-o) with max_key (-k).
Shapes == {[max_ops |-> 1, max_key |-> 2], [max_ops |-> 2, max_key |-> 1]}
\* The values of read_only_percent (-r).
ReadOnlyPercents == {0, 50, 100}

\* ------------------------------------------------------- program constants
\* is_read_only = self.random.randint(1, 100) <= self.read_only_percent
PercentSides == 100

\* ------------------------------------------------------ random.Random
\* The stream of this generator is never seeded: a draw may give any value
\* of its range.
\* Faulty variant: the range starts at 0.
randint_from_zero(a, b) == 0..b

\* What self.random.randint(a, b) may return.
randint(a, b) == a..b

\* What self.random.choice(seq) may return.
choice(seq) == Range(seq)

\* --------------------------------------------------------- operations
RECURSIVE flatten(_)
flatten(lists) == IF Len(lists) = 0 THEN <<>>
                  ELSE Head(lists) \o flatten(Tail(lists))

\* f'key_{key_num}'
random_key(key_num) == <<"key_", str(key_num)>>

\* What one pass of the loop over op_id appends.
appended(op_id, op_type, key_num) ==
    IF op_type = "UPDATE"
    THEN <<[id |-> op_id, type |-> "READ", key |-> random_key(key_num)],
           [id |-> op_id, type |-> "WRITE", key |-> random_key(key_num)]>>
    ELSE <<[id |-> op_id, type |-> op_type, key |-> random_key(key_num)]>>

\* The lists the loop may build when op_type is drawn from op_types.
operation_lists(op_types) ==
    UNION {{flatten([op_id \in 1..num_ops |->
                        appended(op_id, op_type[op_id], key_num[op_id])]) :
               op_type \in [1..num_ops -> op_types],
               key_num \in [1..num_ops ->
                               randint(1, random_generator.max_key)]} :
           num_ops \in randint(1, random_generator.max_ops)}

\* What generate_read_only_operations() may return.
generate_read_only_operations == operation_lists({"READ"})

\* What generate_random_operations() may return.
generate_random_operations == operation_lists(choice(<<"READ", "WRITE">>))

\* Faulty variant: the draw has to be below the percentage.
is_read_only_below(draw, read_only_percent) == draw < read_only_percent

\* is_read_only = self.random.randint(1, 100) <= self.read_only_percent
is_read_only(draw, read_only_percent) == draw <= read_only_percent

\* What one pass of generate_transactions' loop may choose: the path and the
\* operations it returns.
transaction_choices ==
    UNION {IF read_only
           THEN {[path |-> "read_only", operations |-> ops] :
                    ops \in generate_read_only_operations}
           ELSE {[path |-> "random", operations |-> ops] :
                    ops \in generate_random_operations} :
           read_only \in {is_read_only(draw, random_generator.read_only_percent) :
                             draw \in randint(1, PercentSides)}}

\* 'name': f'Txn_{txn_id}'
random_txn_name(txn_id) == <<"Txn_", str(txn_id)>>

\* The lists generate_transactions() may return, each with the path taken.
generate_transactions ==
    {[txn_id \in 1..random_generator.total_txns |->
         [name |-> random_txn_name(txn_id),
          isolationLevel |-> "SERIALIZABLE",
          operations |-> chosen[txn_id].operations,
          path |-> chosen[txn_id].path]] :
        chosen \in [1..random_generator.total_txns -> transaction_choices]}

\* Faulty variant: max_key is written before max_ops.
random_workload_name_keys_first(case_num) ==
    <<"workload_", str(random_generator.total_txns), "t_",
      str(random_generator.max_key), "o_", str(random_generator.max_ops), "k_",
      str(random_generator.read_only_percent), "r_", str(case_num), ".json">>

\* f"workload_{total_txns}t_{max_ops}o_{max_key}k_{read_only_percent}r_{case_num}.json"
random_workload_name(case_num) ==
    <<"workload_", str(random_generator.total_txns), "t_",
      str(random_generator.max_ops), "o_", str(random_generator.max_key), "k_",
      str(random_generator.read_only_percent), "r_", str(case_num), ".json">>

\* ------------------------------------------------------------ actions
\* main() has checked the arguments: each count positive, the percentage
\* within 0..100.
InitRandGen ==
    /\ HarnessIdle /\ LogAbsent /\ BenchGenIdle /\ AnalyzerIdle /\ ExperimentIdle
    /\ \E total_txns \in 1..MaxRunTxns, shape \in Shapes,
          read_only_percent \in ReadOnlyPercents :
           \E cases \in 1..(MaxRunTxns \div total_txns) :
               random_generator =
                   [total_txns |-> total_txns, max_ops |-> shape.max_ops,
                    max_key |-> shape.max_key, cases |-> cases,
                    read_only_percent |-> read_only_percent]
    /\ random_workload_dir = <<>>
    /\ rg_case = 1
    /\ rg_return = "running"
    /\ rg_paths = <<>>

\* One case of generate_workloads: the transactions are generated, shuffled
\* and written to the case's file.
GenerateWorkload ==
    /\ rg_return = "running"
    /\ rg_case <= random_generator.cases
    /\ \E transactions \in generate_transactions,
          order \in Perms(1..random_generator.total_txns) :
           LET shuffled == [k \in 1..Len(transactions) |-> transactions[order[k]]]
               filename == random_workload_name(rg_case)
           IN /\ random_workload_dir' =
                     (filename :> workload_json(shuffled)) @@ random_workload_dir
              /\ rg_paths' =
                     (filename :> [k \in 1..Len(shuffled) |-> shuffled[k].path])
                         @@ rg_paths
    /\ rg_case' = rg_case + 1
    /\ UNCHANGED <<random_generator, rg_return>>
    /\ UNCHANGED <<vars, benchgen_vars, analyzer_vars, experiment_vars>>

\* After the last case: the summary is printed, True returned.
RandFinish ==
    /\ rg_return = "running"
    /\ rg_case > random_generator.cases
    /\ rg_return' = "True"
    /\ UNCHANGED <<random_generator, random_workload_dir, rg_case, rg_paths>>
    /\ UNCHANGED <<vars, benchgen_vars, analyzer_vars, experiment_vars>>

NextRandGen == GenerateWorkload \/ RandFinish

SpecRandGen == InitRandGen /\ [][NextRandGen]_allvars

\* =================================================================
\* Properties of the Random Workload Generator
\* =================================================================
\* The operations of all transactions of a written workload.
AllOperations(workload) ==
    UNION {Range(workload.templates[k].operations) :
              k \in 1..Len(workload.templates)}

\* C17: with read_only_percent = 100 every operation of every transaction of
\* every workload written is a READ, whatever is drawn; with
\* read_only_percent = 0 every transaction written was generated by
\* generate_random_operations, none by the read-only path.
C17_ReadOnlyExtremes ==
    \A f \in DOMAIN random_workload_dir :
        /\ random_generator.read_only_percent = PercentSides =>
               /\ \A op \in AllOperations(random_workload_dir[f]) : op.type = "READ"
               /\ \A k \in 1..Len(rg_paths[f]) : rg_paths[f][k] = "read_only"
        /\ random_generator.read_only_percent = 0 =>
               \A k \in 1..Len(rg_paths[f]) : rg_paths[f][k] = "random"

C17_Witness ==
    /\ random_generator.read_only_percent = PercentSides
    /\ random_generator.total_txns = 2
    /\ \E f \in DOMAIN random_workload_dir :
           /\ Len(random_workload_dir[f].templates) = 2
           /\ Len(random_workload_dir[f].templates[1].operations) = 2
           /\ \A op \in AllOperations(random_workload_dir[f]) : op.type = "READ"

\* C18: every workload written holds exactly total_txns transactions, named
\* Txn_1 .. Txn_total_txns, each name once, in any order; each has between 1
\* and max_ops operations, each a READ or a WRITE of a key of key_1 ..
\* key_max_key; each has the isolation level SERIALIZABLE.
C18_WorkloadShape ==
    \A f \in DOMAIN random_workload_dir :
        LET txns == random_workload_dir[f].templates
        IN /\ Len(txns) = random_generator.total_txns
           /\ \A i \in 1..random_generator.total_txns :
                  Cardinality({k \in 1..Len(txns) :
                                  txns[k].name = <<"Txn_", str(i)>>}) = 1
           /\ \A k \in 1..Len(txns) :
                  /\ Len(txns[k].operations) \in 1..random_generator.max_ops
                  /\ txns[k].isolationLevel = "SERIALIZABLE"
                  /\ \A op \in Range(txns[k].operations) :
                         /\ op.type \in {"READ", "WRITE"}
                         /\ \E n \in 1..random_generator.max_key :
                                op.key = <<"key_", str(n)>>

C18_Witness ==
    /\ random_generator.total_txns = 2
    /\ random_generator.max_ops = 2
    /\ \E f \in DOMAIN random_workload_dir :
           LET txns == random_workload_dir[f].templates
           IN /\ txns[1].name = <<"Txn_", str(2)>>
              /\ txns[2].name = <<"Txn_", str(1)>>
              /\ Len(txns[1].operations) = 2
              /\ txns[1].operations[2].type = "WRITE"
              /\ txns[2].operations[1].type = "READ"

\* =================================================================
\* Part 4: the Control-Variable Analyzer (generate_analysis_csv)
\* =================================================================
\* ------------------------------------------------------------------ bounds
\* Most rows of the performance log.
MaxRows == 3
\* The numbers a file name or an execution time of the log may hold: the
\* small ones, and those of the experiment plan of random_workload_for_test.
Numbers == 0..9 \cup {10, 15, 20, 30, 40, 50, 60, 80, 100, 200, 300, 500, 600,
                      700, 800, 900, 1000}

\* ------------------------------------------------------------- texts
DigitStrings == {str(n) : n \in Numbers}
\* int(text), float(text) of a text of digits
int(text) == CHOOSE n \in Numbers : str(n) = text
\* float(text) raises ValueError unless the text is a number; the numbers of
\* the log are the texts of digits (the time in whole units).
is_float(text) == Len(text) = 1 /\ text[1] \in DigitStrings
float(text) == int(text[1])
\* The text csv.DictWriter writes of float(n).
float_text(n) == <<str(n), ".0">>

\* re.match(r'workload_(\d+)t_(\d+)o_(\d+)k_(\d+)r_(\d+)\.json', filename):
\* whether the name begins with a match of the pattern.
re_match(filename) ==
    /\ Len(filename) >= 11
    /\ \A k \in 1..5 : filename[2 * k] \in DigitStrings
    /\ filename[1] = "workload_" /\ filename[3] = "t_" /\ filename[5] = "o_"
    /\ filename[7] = "k_" /\ filename[9] = "r_" /\ filename[11] = ".json"

\* txns, max_ops, max_key, read_only, case_num = map(int, match.groups())
groups(filename) == [k \in 1..5 |-> int(filename[2 * k])]

\* ---------------------------------------------------------- parsing
\* The loop over the rows k.. of the log: the records parsed (each with the
\* number of its row), and whether float() raised, which the except clause
\* around the loop answers with  return False.
parse_rows(rows, k) ==
    LET raised(j) == /\ rows[j].status = "success"
                     /\ ~is_float(rows[j].execution_time_seconds)
        matched(j) == /\ rows[j].status = "success"
                      /\ is_float(rows[j].execution_time_seconds)
                      /\ re_match(rows[j].filename)
        read == [j \in 1..(Len(rows) + 1 - k) |->
                    LET n == j + k - 1
                        g == groups(rows[n].filename)
                    IN IF matched(n)
                       THEN [txns |-> g[1], max_ops |-> g[2], max_key |-> g[3],
                             read_only |-> g[4], case_num |-> g[5],
                             execution_time |->
                                 float(rows[n].execution_time_seconds),
                             row |-> n]
                       ELSE [row |-> n]]
        is_record(item) == "txns" \in DOMAIN item
    IN IF \E j \in k..Len(rows) : raised(j)
       THEN [all_data |-> <<>>, error |-> TRUE]
       ELSE [all_data |-> SelectSeq(read, is_record), error |-> FALSE]

\* --------------------------------------------------------- baselines
\* varying_params, in the order of the dictionary
varying_params ==
    <<[param |-> "txns", plot |-> "txn_count_vs_time"],
      [param |-> "max_ops", plot |-> "op_per_txn_vs_time"],
      [param |-> "max_key", plot |-> "max_key_vs_time"],
      [param |-> "read_only", plot |-> "read_only_vs_time"]>>
Params == {varying_params[k].param : k \in 1..Len(varying_params)}

\* Faulty variant: the first value met is taken.
most_common_first_met(values) == values[1]

\* Counter(values).most_common(1)[0][0]: a value of the highest count, the
\* one met first among several.
most_common(values) ==
    LET count(v) == Cardinality({k \in 1..Len(values) : values[k] = v})
        first(v) == CHOOSE k \in 1..Len(values) :
                        values[k] = v /\ \A j \in 1..(k - 1) : values[j] # v
        best == {v \in Range(values) : \A w \in Range(values) : count(w) <= count(v)}
    IN CHOOSE v \in best : \A w \in best : first(v) <= first(w)

\* Faulty variant: the values of the first record are the baseline.
base_config_of_first(all_data, varying_param) ==
    [param \in Params \ {varying_param} |-> all_data[1][param]]

\* base_config of the pass that varies varying_param
base_config(all_data, varying_param) ==
    [param \in Params \ {varying_param} |->
        most_common([k \in 1..Len(all_data) |-> all_data[k][param]])]

\* Faulty variant: nothing is filtered out.
filtered_data_unfiltered(all_data, varying_param) == all_data

\* filtered_data of the pass
filtered_data(all_data, varying_param) ==
    LET base == base_config(all_data, varying_param)
        matches(item) == \A param \in DOMAIN base : item[param] = base[param]
    IN SelectSeq(all_data, matches)

\* ------------------------------------------------------- statistics
RECURSIVE sum(_)
sum(xs) == IF Len(xs) = 0 THEN 0 ELSE Head(xs) + sum(Tail(xs))
\* np.mean(times): the fraction sum/count
mean(times) == [num |-> sum(times), den |-> Len(times)]
\* Faulty variant: the sample standard deviation (divisor n - 1).
std_of_sample(times) ==
    [squared |-> [num |-> Len(times) * sum([k \in 1..Len(times) |->
                                                times[k] * times[k]])
                          - sum(times) * sum(times),
                  den |-> Len(times) * (Len(times) - 1)]]

\* np.std(times), the population standard deviation, by its square: the
\* fraction (n * sum of squares - square of the sum) / n^2
std(times) ==
    [squared |-> [num |-> Len(times) * sum([k \in 1..Len(times) |->
                                                times[k] * times[k]])
                          - sum(times) * sum(times),
                  den |-> Len(times) * Len(times)]]

\* The cell of a base parameter: empty for the parameter the pass varies.
base_cell(base, param) ==
    IF param \in DOMAIN base THEN float_text(base[param]) ELSE EmptyStr

\* The rows of one pass: one for each value of the varying parameter among
\* the filtered records, in ascending order of the value.
pass_rows(all_data, pass) ==
    LET base == base_config(all_data, pass.param)
        filtered == filtered_data(all_data, pass.param)
        values == sorted({filtered[k][pass.param] : k \in 1..Len(filtered)})
        has_value(v) == LET test(item) == item[pass.param] = v
                        IN SelectSeq(filtered, test)
        times(v) == [k \in 1..Len(has_value(v)) |-> has_value(v)[k].execution_time]
    IN [n \in 1..Len(values) |->
           [plot |-> pass.plot,
            vary_variable |-> pass.param,
            vary_value |-> float_text(values[n]),
            txn_count |-> base_cell(base, "txns"),
            op_per_txn |-> base_cell(base, "max_ops"),
            max_key |-> base_cell(base, "max_key"),
            read_only_percent |-> base_cell(base, "read_only"),
            mean |-> mean(times(values[n])),
            std |-> std(times(values[n])),
            sample_count |-> Len(times(values[n]))]]

\* Faulty variant: only the first pass is analysed.
analysis_data_first_pass_only(all_data) == pass_rows(all_data, varying_params[1])

\* analysis_data: the rows of the four passes, one pass after the other
analysis_data(all_data) ==
    flatten([p \in 1..Len(varying_params) |-> pass_rows(all_data, varying_params[p])])

\* ------------------------------------------------------ the log's rows
\* f"workload_{txns}t_{max_ops}o_{max_key}k_{read_only}r_{case_num}.json"
log_name(txns, max_ops, max_key, read_only, case_num) ==
    <<"workload_", str(txns), "t_", str(max_ops), "o_", str(max_key), "k_",
      str(read_only), "r_", str(case_num), ".json">>

LogNames == {log_name(1, 1, 1, 0, 1), log_name(2, 1, 1, 0, 1),
             log_name(1, 2, 1, 0, 1), log_name(2, 2, 3, 5, 2)}
\* Names the pattern is not made for: a benchmark workload's name, a name
\* with a text where a number belongs, a copy's name.
BenchStyleName == <<"1", "_", "4", "t_", "3", "k_", "1", ".json">>
NoNumberName == <<"workload_", "many", "t_", "1", "o_", "1", "k_", "0", "r_",
                  "1", ".json">>
CopyName == log_name(2, 1, 1, 0, 1) \o <<".bak">>
NotANumber == <<"n/a">>

\* A successful row of the log.
success_row(filename, time_text) ==
    [filename |-> filename, status |-> "success",
     execution_time_seconds |-> time_text, error_message |-> EmptyStr]

LogRows ==
    {success_row(f, <<str(1)>>) : f \in LogNames}
    \cup {success_row(log_name(1, 1, 1, 0, 1), <<str(3)>>)}
    \cup {success_row(f, <<str(2)>>) : f \in {BenchStyleName, NoNumberName, CopyName}}
    \cup {success_row(log_name(1, 1, 1, 0, 1), NotANumber)}
    \cup {[filename |-> log_name(2, 2, 3, 5, 2), status |-> "failed",
           execution_time_seconds |-> <<str(2)>>, error_message |-> TimeoutText]}

\* The rows of the scenario: workload_100t_10o_300k_50r_1.json and rows that
\* differ from it in max_ops only.
ScenarioRows ==
    {success_row(log_name(100, o, 300, 50, 1), <<str(1)>>) : o \in {10, 15, 20}}

\* The analysis file an earlier run has left in the data directory.
EarlierLog == <<success_row(log_name(2, 2, 3, 5, 2), <<str(1)>>)>>
EarlierAnalysis ==
    [exists |-> TRUE, rows |-> analysis_data(parse_rows(EarlierLog, 1).all_data)]
NoAnalysis == [exists |-> FALSE, rows |-> <<>>]
NotPlotted == [called |-> FALSE, read |-> FALSE, rows |-> <<>>]

\* ------------------------------------------------------------ actions
\* generate_analysis_csv is called on a log, in a directory without analysis.
InitAnalyzer ==
    /\ HarnessIdle /\ BenchGenIdle /\ RandGenIdle /\ ExperimentIdle
    /\ \E exists \in BOOLEAN, n \in 0..MaxRows :
           /\ ~exists => n = 0
           /\ \E rows \in [1..n -> LogRows] \cup [1..n -> ScenarioRows] :
                  result_csv = [exists |-> exists, rows |-> rows]
    /\ analysis_csv = NoAnalysis
    /\ prior_analysis = analysis_csv
    /\ plotted = NotPlotted
    /\ an_return = "running"
    /\ an_passes = <<>>

\* generate_analysis_csv(result_csv, analysis_csv): False when the log is
\* missing, when reading it raises, when no record was parsed; else the
\* analysis file is written with the rows of the four passes.
GenerateAnalysis ==
    /\ an_return = "running"
    /\ LET parsed == parse_rows(result_csv.rows, 1)
           all_data == parsed.all_data
       IN IF ~result_csv.exists \/ parsed.error \/ Len(all_data) = 0
          THEN /\ an_return' = "False"
               /\ UNCHANGED <<analysis_csv, an_passes>>
          ELSE /\ analysis_csv' = [exists |-> TRUE,
                                   rows |-> analysis_data(all_data)]
               /\ an_passes' =
                      [param \in Params |->
                          [base_config |-> base_config(all_data, param),
                           filtered_data |-> filtered_data(all_data, param)]]
               /\ an_return' = "True"
    /\ UNCHANGED <<prior_analysis, plotted>>
    /\ UNCHANGED <<vars, benchgen_vars, randgen_vars, experiment_vars>>

\* create_plots_from_analysis_csv(analysis_csv), which main() calls next
\* whatever generate_analysis_csv returned: it returns when the file is
\* missing or pandas is, else it reads the file's rows and plots them.
CreatePlots ==
    /\ an_return \in {"True", "False"}
    /\ ~plotted.called
    /\ \E pandas \in BOOLEAN :
           plotted' = IF analysis_csv.exists /\ pandas
                      THEN [called |-> TRUE, read |-> TRUE,
                            rows |-> analysis_csv.rows]
                      ELSE [called |-> TRUE, read |-> FALSE, rows |-> <<>>]
    /\ UNCHANGED <<analysis_csv, an_return, an_passes, prior_analysis>>
    /\ UNCHANGED <<vars, benchgen_vars, randgen_vars, experiment_vars>>

NextAnalyzer == GenerateAnalysis

SpecAnalyzer == InitAnalyzer /\ [][NextAnalyzer]_allvars

\* ------------------------------------------- the end of a harness run
\* The rows of the log that main() has written at the end of a run.
ReportRows ==
    {success_row(log_name(1, 1, 1, 0, 1), <<str(1)>>),
     success_row(BenchStyleName, <<str(2)>>),
     [filename |-> log_name(1, 1, 1, 0, 1), status |-> "failed",
      execution_time_seconds |-> <<str(2)>>, error_message |-> TimeoutText]}

\* main() of the random harness has written the log (lines 616-630) and goes
\* on to the analysis and the plots; the data directory may hold the analysis
\* file of an earlier run.
InitReport ==
    /\ HarnessIdle /\ BenchGenIdle /\ RandGenIdle /\ ExperimentIdle
    /\ \E n \in 0..MaxRows : \E rows \in [1..n -> ReportRows] :
           result_csv = [exists |-> TRUE, rows |-> rows]
    /\ analysis_csv \in {NoAnalysis, EarlierAnalysis}
    /\ prior_analysis = analysis_csv
    /\ plotted = NotPlotted
    /\ an_return = "running"
    /\ an_passes = <<>>

NextReport == GenerateAnalysis \/ CreatePlots

SpecReport == InitReport /\ [][NextReport]_allvars

\* =================================================================
\* Properties of the Control-Variable Analyzer
\* =================================================================
LogRowNumbers == 1..Len(result_csv.rows)
Successful(k) == result_csv.rows[k].status = "success"
\* The successful rows of the log whose name and time are as the pattern and
\* float() expect them.
WellFormed == {k \in LogRowNumbers :
                  /\ Successful(k)
                  /\ re_match(result_csv.rows[k].filename)
                  /\ is_float(result_csv.rows[k].execution_time_seconds)}
\* The value of a parameter that the name of row k holds.
ParamOf(k, param) ==
    LET g == groups(result_csv.rows[k].filename)
    IN CASE param = "txns" -> g[1] [] param = "max_ops" -> g[2]
         [] param = "max_key" -> g[3] [] param = "read_only" -> g[4]
\* How many parsed successful records hold the value v of a parameter.
CountOf(param, v) == Cardinality({k \in WellFormed : ParamOf(k, param) = v})

\* C19 as stated: a log with a malformed row (a name that does not match, a
\* time that is no number) beside well-formed successful rows is analysed all
\* the same: the analysis completes and writes rows.
C19_MalformedRowsSkipped ==
    (an_return # "running" /\ result_csv.exists /\ WellFormed # {}) =>
        /\ an_return = "True"
        /\ analysis_csv.exists
        /\ Len(analysis_csv.rows) > 0

\* C20: once the analysis is written, in every pass the baseline of each
\* other parameter is a value that no other value exceeds in the number of
\* parsed successful records holding it (a failed row counts nowhere), and a
\* record is used by the pass exactly if its three other parameters all have
\* their baseline value.
C20_BaselineIsMostFrequent ==
    an_return = "True" =>
        \A pass \in Params :
            LET base == an_passes[pass].base_config
                used == {an_passes[pass].filtered_data[n].row :
                            n \in 1..Len(an_passes[pass].filtered_data)}
            IN /\ DOMAIN base = Params \ {pass}
               /\ \A param \in DOMAIN base :
                      /\ CountOf(param, base[param]) > 0
                      /\ \A k \in WellFormed :
                             CountOf(param, ParamOf(k, param))
                                 <= CountOf(param, base[param])
               /\ used = {k \in WellFormed :
                             \A param \in DOMAIN base :
                                 ParamOf(k, param) = base[param]}
               /\ Len(an_passes[pass].filtered_data) = Cardinality(used)

C20_Witness ==
    /\ an_return = "True"
    /\ Len(result_csv.rows) = MaxRows
    /\ \E k \in LogRowNumbers : ~Successful(k)
    /\ Cardinality(WellFormed) = 2
    /\ an_passes["txns"].base_config["max_ops"] = 2
    /\ an_passes["txns"].base_config["max_key"] = 1
    /\ Len(an_passes["txns"].filtered_data) = 1

\* ----------------------------------------------------------------
\* The rows the analysis has written for a pass.
PassRows(pass) ==
    LET of_pass(row) == row.vary_variable = pass
    IN SelectSeq(analysis_csv.rows, of_pass)
\* The rows of the log that the pass has used.
Used(pass) == {an_passes[pass].filtered_data[n].row :
                  n \in 1..Len(an_passes[pass].filtered_data)}
\* The parsed successful rows that have the baseline of the pass in every
\* parameter but the varied one.
Matching(pass) ==
    {k \in WellFormed :
        \A param \in Params \ {pass} :
            ParamOf(k, param) = an_passes[pass].base_config[param]}
TimeOf(k) == float(result_csv.rows[k].execution_time_seconds)
RECURSIVE SumOfTimes(_)
SumOfTimes(G) ==
    IF G = {} THEN 0
    ELSE LET k == CHOOSE x \in G : TRUE IN TimeOf(k) + SumOfTimes(G \ {k})
\* The sum over the group G of (n * time - S)^2.
RECURSIVE SumOfSquaredDeviations(_, _, _)
SumOfSquaredDeviations(G, n, S) ==
    IF G = {} THEN 0
    ELSE LET k == CHOOSE x \in G : TRUE
         IN (n * TimeOf(k) - S) * (n * TimeOf(k) - S)
                + SumOfSquaredDeviations(G \ {k}, n, S)
RECURSIVE SumOfSampleCounts(_)
SumOfSampleCounts(rows) ==
    IF Len(rows) = 0 THEN 0
    ELSE Head(rows).sample_count + SumOfSampleCounts(Tail(rows))

\* C21: once the analysis is written, every pass has exactly one row for each
\* value of its parameter among the records it used; the row's sample_count
\* is the number n of those records, its mean is the sum of their times
\* divided by n, and the square of its std is the mean of the squared
\* deviations from that mean (divisor n), 0 for a single record.
C21_RowStatistics ==
    an_return = "True" =>
        \A pass \in Params :
            LET values == {ParamOf(k, pass) : k \in Used(pass)}
                rows == PassRows(pass)
            IN /\ Len(rows) = Cardinality(values)
               /\ \A v \in values :
                      LET G == {k \in Used(pass) : ParamOf(k, pass) = v}
                          n == Cardinality(G)
                          S == SumOfTimes(G)
                      IN \E r \in 1..Len(rows) :
                             /\ rows[r].vary_value = float_text(v)
                             /\ rows[r].sample_count = n
                             /\ rows[r].mean.den # 0
                             /\ rows[r].mean.num * n = rows[r].mean.den * S
                             /\ rows[r].std.squared.den # 0
                             /\ rows[r].std.squared.num * n * n * n =
                                    rows[r].std.squared.den
                                        * SumOfSquaredDeviations(G, n, S)
                             /\ n = 1 => rows[r].std.squared.num = 0

C21_Witness ==
    /\ an_return = "True"
    /\ \E r, q \in 1..Len(PassRows("txns")) :
           /\ PassRows("txns")[r].sample_count = 2
           /\ PassRows("txns")[r].mean = [num |-> 4, den |-> 2]
           /\ PassRows("txns")[r].std.squared = [num |-> 4, den |-> 4]
           /\ PassRows("txns")[q].sample_count = 1
           /\ PassRows("txns")[q].std.squared.num = 0

\* The log of the scenario: three successful rows, one of them
\* workload_100t_10o_300k_50r_1.json, the other two differing from it in
\* max_ops only.
BaselineRow == success_row(log_name(100, 10, 300, 50, 1), <<str(1)>>)
Scenario ==
    /\ result_csv.exists
    /\ Len(result_csv.rows) = 3
    /\ \E b \in 1..3 :
           /\ result_csv.rows[b] = BaselineRow
           /\ \A k \in (1..3) \ {b} :
                  /\ result_csv.rows[k] \in ScenarioRows
                  /\ ParamOf(k, "max_ops") # 10

\* C22 as stated: in the scenario all three rows are used by the txns pass,
\* and the txns pass uses no row whose max_ops is not the baseline max_ops.
C22_AllThreeInTxnsPass ==
    (Scenario /\ an_return = "True") =>
        /\ Used("txns") = 1..3
        /\ \A k \in Used("txns") :
               ParamOf(k, "max_ops") = an_passes["txns"].base_config["max_ops"]

\* C22 amended: in the scenario the txns pass uses exactly the rows whose
\* max_ops is the baseline max_ops, which is a most frequent max_ops of the
\* three rows, so it leaves at least one of the three out; the three rows are
\* all used by the max_ops pass, for which txns, max_key and read_only are
\* the baseline in each of them.
C22_TxnsPassKeepsBaselineMaxOps ==
    (Scenario /\ an_return = "True") =>
        LET base_max_ops == an_passes["txns"].base_config["max_ops"]
        IN /\ Used("txns") = {k \in 1..3 : ParamOf(k, "max_ops") = base_max_ops}
           /\ \A k \in 1..3 :
                  CountOf("max_ops", ParamOf(k, "max_ops"))
                      <= CountOf("max_ops", base_max_ops)
           /\ Used("txns") # {}
           /\ Used("txns") # 1..3
           /\ Used("max_ops") = 1..3

C22_Witness ==
    /\ Scenario
    /\ an_return = "True"
    /\ result_csv.rows[1] = BaselineRow
    /\ an_passes["txns"].base_config["max_ops"] = 15
    /\ Used("txns") = {2, 3}
    /\ Len(PassRows("max_ops")) = 2

C28_RowsPartitionFiltered ==
    an_return = "True" =>
        \A pass \in Params :
            LET rows == PassRows(pass)
            IN /\ SumOfSampleCounts(rows) = Cardinality(Matching(pass))
               /\ \A r \in 1..Len(rows) :
                      /\ rows[r].sample_count >= 1
                      /\ rows[r].sample_count =
                             Cardinality({k \in Matching(pass) :
                                 float_text(ParamOf(k, pass)) = rows[r].vary_value})
                      /\ \A q \in 1..Len(rows) :
                             q # r => rows[q].vary_value # rows[r].vary_value

C28_Witness ==
    /\ an_return = "True"
    /\ Cardinality(WellFormed) = 3
    /\ Cardinality(Matching("txns")) = 2
    /\ Len(PassRows("txns")) = 1
    /\ PassRows("txns")[1].sample_count = 2

\* C29 as stated: when the run's log has no usable successful record, the
\* plotting step does not read an analysis that an earlier run has left.
C29_NoStaleAnalysisPlotted ==
    (plotted.called /\ WellFormed = {}) =>
        ~(plotted.read /\ prior_analysis.exists
              /\ plotted.rows = prior_analysis.rows)

\* C30 as stated: a record that a pass uses has a name that is, as a whole,
\* a name of the grammar: nothing follows ".json".
C30_WholeNameMatches ==
    an_return = "True" =>
        \A pass \in Params : \A k \in Used(pass) :
            /\ re_match(result_csv.rows[k].filename)
            /\ Len(result_csv.rows[k].filename) = 11

base_params_of_200 == [txns |-> 200, max_ops |-> 10, max_key |-> 300, read_only |-> 50]

\* base_params of main()
base_params == [txns |-> 500, max_ops |-> 10, max_key |-> 300, read_only |-> 50]
\* cases = 3 of main()
plan_cases == 3
\* experiments of main()
experiments ==
    <<[name |-> "Exp1: Varying Transaction Count",
       varying_param |-> "txns", values |-> <<100, 200, 500>>],
      [name |-> "Exp2: Varying Operations per Transaction",
       varying_param |-> "max_ops", values |-> <<10, 15, 20, 30, 40, 60, 80, 100>>],
      [name |-> "Exp3: Varying Key Space Size",
       varying_param |-> "max_key", values |-> <<100, 500, 600, 700, 800, 900, 1000>>],
      [name |-> "Exp4: Varying Read-Only Percentage",
       varying_param |-> "read_only", values |-> <<0, 20, 40, 60, 80, 100>>]>>

\* params = base_params.copy(); params[varying_param] = value
experiment_params(base, varying_param, value) ==
    [base EXCEPT ![varying_param] = value]

\* The content json.dump writes under a name, as far as it can be told from
\* the contents written under that name before: the generator's stream is
\* not seeded, so what a later call writes is the content that is there or
\* another one.
first_content == [draw |-> 1]
next_contents(content) == {content, [draw |-> content.draw + 1]}

\* main() begins: the first value of the first experiment is at hand; the
\* directory of random workloads is as a fresh checkout has it, empty.
InitExperiment ==
    /\ HarnessIdle /\ LogAbsent /\ BenchGenIdle /\ RandGenIdle /\ AnalyzerIdle
    /\ exp_experiment = 1
    /\ exp_value = 1
    /\ exp_return = "running"

\* generate_workload(...): the generator is started as a process of its own
\* with the parameters of the value at hand and --cases cases.
StartGenerator ==
    /\ exp_return = "running"
    /\ rg_return # "running"
    /\ LET exp == experiments[exp_experiment]
           params == experiment_params(base_params, exp.varying_param,
                                       exp.values[exp_value])
       IN random_generator' =
              [total_txns |-> params.txns, max_ops |-> params.max_ops,
               max_key |-> params.max_key, cases |-> plan_cases,
               read_only_percent |-> params.read_only]
    /\ rg_case' = 1
    /\ rg_return' = "running"
    /\ UNCHANGED <<random_workload_dir, rg_paths>>
    /\ UNCHANGED <<vars, benchgen_vars, analyzer_vars, experiment_vars>>

\* One case of the generator's generate_workloads:  with open(filepath, 'w')
\* truncates what the name holds and the new content is written.
WriteWorkloadFile ==
    /\ exp_return = "running"
    /\ rg_return = "running"
    /\ rg_case <= random_generator.cases
    /\ LET filename == random_workload_name(rg_case)
       IN \E content \in (IF filename \in DOMAIN random_workload_dir
                          THEN next_contents(random_workload_dir[filename])
                          ELSE {first_content}) :
              random_workload_dir' = (filename :> content) @@ random_workload_dir
    /\ rg_case' = rg_case + 1
    /\ UNCHANGED <<random_generator, rg_return, rg_paths>>
    /\ UNCHANGED <<vars, benchgen_vars, analyzer_vars, experiment_vars>>

\* The generator has returned 0: generate_workload is True, run_experiment
\* goes on to the next value, main() to the next experiment; after the last
\* one main() returns 0.
GeneratorSucceeds ==
    /\ exp_return = "running"
    /\ rg_return = "running"
    /\ rg_case > random_generator.cases
    /\ rg_return' = "True"
    /\ IF exp_value < Len(experiments[exp_experiment].values)
       THEN /\ exp_value' = exp_value + 1
            /\ UNCHANGED <<exp_experiment, exp_return>>
       ELSE IF exp_experiment < Len(experiments)
       THEN /\ exp_experiment' = exp_experiment + 1
            /\ exp_value' = 1
            /\ UNCHANGED exp_return
       ELSE /\ exp_return' = "True"
            /\ UNCHANGED <<exp_experiment, exp_value>>
    /\ UNCHANGED <<random_generator, random_workload_dir, rg_case, rg_paths>>
    /\ UNCHANGED <<vars, benchgen_vars, analyzer_vars>>

\* run_command: the generator returns another code, runs into the timeout or
\* cannot be run: generate_workload is False, run_experiment returns False,
\* main() leaves the loop and returns 1.
GeneratorFails ==
    /\ exp_return = "running"
    /\ rg_return = "running"
    /\ rg_return' = "False"
    /\ exp_return' = "False"
    /\ UNCHANGED <<exp_experiment, exp_value>>
    /\ UNCHANGED <<random_generator, random_workload_dir, rg_case, rg_paths>>
    /\ UNCHANGED <<vars, benchgen_vars, analyzer_vars>>

\* The parameters of the calls of generate_workload that the loops of main()
\* and run_experiment make, in their order.
plan_calls ==
    flatten([e \in 1..Len(experiments) |->
        [v \in 1..Len(experiments[e].values) |->
            experiment_params(base_params, experiments[e].varying_param,
                              experiments[e].values[v])]])
\* The names of the files the calls write, in their order.
plan_names ==
    flatten([c \in 1..Len(plan_calls) |->
        [case_num \in 1..plan_cases |->
            log_name(plan_calls[c].txns, plan_calls[c].max_ops,
                     plan_calls[c].max_key, plan_calls[c].read_only, case_num)]])

\* The rows of a log of the files of the directory, one row a file, in the
\* order in which the plan has first written them.
rows_of(dir, times, failed_case) ==
    LET names == plan_names
        listed == [n \in 1..Len(names) |-> [name |-> names[n], at |-> n]]
        first_written(item) ==
            /\ item.name \in DOMAIN dir
            /\ \A j \in 1..(item.at - 1) : names[j] # item.name
        files == SelectSeq(listed, first_written)
    IN [k \in 1..Len(files) |->
           LET f == files[k].name
               case_num == groups(f)[5]
           IN IF case_num = failed_case
              THEN [filename |-> f, status |-> "failed",
                    execution_time_seconds |-> <<str(times[case_num])>>,
                    error_message |-> TimeoutText]
              ELSE success_row(f, <<str(times[case_num])>>)]

\* The random harness is run on the directory the plan has filled: its log
\* has a row for every file, successful with its time or failed; the
\* analysis is next.
AllocateGenerated ==
    /\ exp_return = "True"
    /\ an_return = "idle"
    /\ \E failed_case \in 0..plan_cases, times \in [1..plan_cases -> {1, 3}] :
           result_csv' = [exists |-> TRUE,
                          rows |-> rows_of(random_workload_dir, times,
                                           failed_case)]
    /\ an_return' = "running"
    /\ UNCHANGED <<analysis_csv, an_passes, prior_analysis, plotted>>
    /\ UNCHANGED <<harness, pc, input_dir, allocated_dir, workload_files,
                   submitted, work_queue, num_threads, running, futures, yielded,
                   performance_data, successful, failed, failed_files,
                   exit_code, invoked, engine_outcome, prior_outputs>>
    /\ UNCHANGED <<benchgen_vars, randgen_vars, experiment_vars>>

NextExperiment ==
    \/ StartGenerator
    \/ WriteWorkloadFile
    \/ GeneratorSucceeds
    \/ GeneratorFails
    \/ AllocateGenerated
    \/ GenerateAnalysis

SpecExperiment == InitExperiment /\ [][NextExperiment]_allvars

\* =================================================================
\* Properties of the experiment plan
\* =================================================================
\* C23 as stated: every file of the directory holds the content that was
\* first written under its name: no later call of the generator has changed
\* it.
C23_WrittenFilesKeepContent ==
    \A f \in DOMAIN random_workload_dir : random_workload_dir[f] = first_content

\* C25: when the plan has run to its end, every file it has generated has a
\* successful row in the log and the analysis is written, the baseline of
\* each of the four passes is txns 500, max_ops 10, max_key 300, read_only 50
\* in the three parameters the pass does not vary, each of them the value of
\* more records than any other value of its parameter.
C25_BaselineIsBaseParams ==
    (/\ exp_return = "True"
     /\ an_return = "True"
     /\ \A k \in LogRowNumbers : Successful(k)) =>
        \A pass \in Params : \A param \in Params \ {pass} :
            LET configured == [txns |-> 500, max_ops |-> 10, max_key |-> 300,
                               read_only |-> 50]
            IN /\ an_passes[pass].base_config[param] = configured[param]
               /\ \A k \in WellFormed :
                      ParamOf(k, param) # configured[param] =>
                          CountOf(param, ParamOf(k, param))
                              < CountOf(param, configured[param])

C25_Witness ==
    /\ exp_return = "True"
    /\ an_return = "True"
    /\ Len(result_csv.rows) = 69
    /\ \A k \in LogRowNumbers : Successful(k)
    /\ an_passes["txns"].base_config =
           [max_ops |-> 10, max_key |-> 300, read_only |-> 50]
    /\ Len(PassRows("txns")) = 3
    /\ Len(PassRows("max_ops")) = 8
    /\ Len(PassRows("max_key")) = 8
    /\ Len(PassRows("read_only")) = 7

====
